---- MODULE Spec2Model ----
(***************************************************************************)
(* The rollout section of main() in main.py (lines 148-226): the mode      *)
(* selection on the pair id, the reconstruction loop, the single-call      *)
(* forecast, and the write of the assembled matrix.                        *)
(*                                                                         *)
(* Arrays are records [shape, el]: shape is the tuple of dimensions and el *)
(* the elements in row-major order.  Cells carry integers that encode      *)
(* where a value comes from (which matrix, which timestep, which channel,  *)
(* or which model call), so that alignment is visible in the data.         *)
(***************************************************************************)
EXTENDS Integers, Sequences, FiniteSets, TLC

\* ---------------------------------------------------------------- bounds
MaxLag == 3
MaxHorizon == 3
MaxHist == 5
MaxPred == 5
MaxChan == 2
MaxPairId == 9

\* the loop needs at most one call per requested timestep when horizon >= 1;
\* the cap only stops the non-terminating runs (horizon = 0)
MaxCalls == MaxPred + 1

DatasetNames == {"KS_Official", "ETTh1"}
RolloutDatasets == {"ODE_Lorenz", "PDE_KS", "KS_Official", "Lorenz_Official"}
ReconstructionPairs == {2, 4}
InitialConditionPairs == {8, 9}

\* ---------------------------------------------------------------- values
Max(a, b) == IF a >= b THEN a ELSE b
Min(a, b) == IF a <= b THEN a ELSE b

\* src: 1 = train_mats[0] of load_dataset, 2 = init matrix of load_dataset,
\*      3 = train_mats[0] of load_validation_dataset, 4 = its init matrix
Cell(src, t, c) == 1000 * src + 10 * t + c
\* value of channel c at the i-th timestep produced by the call-th model call
PredCell(call, i, c) == 10000 + 1000 * call + 10 * i + c
IsPred(v) == v >= 10000
CallOf(v) == (v - 10000) \div 1000

\* ---------------------------------------------------------------- arrays
None == [shape |-> <<>>, el |-> <<>>]
ValueError == [shape |-> <<0 - 1>>, el |-> <<>>]

ndim(a) == Len(a.shape)

\* element (i, j), 1-based, of a two-dimensional array
At(a, i, j) == a.el[(i - 1) * a.shape[2] + j]

\* a matrix of the given source as the loaders return it with transpose=True:
\* channels x timesteps
Loaded(src, chan, len) ==
  [shape |-> <<chan, len>>,
   el |-> [k \in 1..(chan * len) |->
             Cell(src, (k - 1) % len, (k - 1) \div len)]]

\* a.T
T(a) ==
  IF ndim(a) # 2 THEN a
  ELSE LET r == a.shape[1]
           c == a.shape[2]
       IN [shape |-> <<c, r>>,
           el |-> [k \in 1..(r * c) |->
                     a.el[((k - 1) % r) * c + ((k - 1) \div r) + 1]]]

\* Python's clipping of a slice bound against a dimension of n
SliceIndex(i, n) == IF i < 0 THEN Max(i + n, 0) ELSE Min(i, n)

\* a[lo:hi, :]
RowSlice(a, lo, hi) ==
  LET r == a.shape[1]
      c == a.shape[2]
      s == SliceIndex(lo, r)
      e == SliceIndex(hi, r)
      m == Max(e - s, 0)
  IN [shape |-> <<m, c>>, el |-> [k \in 1..(m * c) |-> a.el[s * c + k]]]

\* a[lo:, :]
RowsFrom(a, lo) == RowSlice(a, lo, a.shape[1])

\* a[:, lo:hi]
ColSlice(a, lo, hi) ==
  LET r == a.shape[1]
      c == a.shape[2]
      s == SliceIndex(lo, c)
      e == SliceIndex(hi, c)
      m == Max(e - s, 0)
  IN [shape |-> <<r, m>>,
      el |-> [k \in 1..(r * m) |->
                a.el[((k - 1) \div m) * c + s + ((k - 1) % m) + 1]]]

\* tensor.squeeze(): every dimension of size 1 is dropped
RECURSIVE DropOnes(_)
DropOnes(sh) ==
  IF sh = <<>> THEN <<>>
  ELSE IF Head(sh) = 1 THEN DropOnes(Tail(sh))
       ELSE <<Head(sh)>> \o DropOnes(Tail(sh))

squeeze(a) == [shape |-> DropOnes(a.shape), el |-> a.el]

\* np.concatenate([a, b], axis=1): both arrays must be two-dimensional and
\* agree on dimension 0
concatenate_axis1(a, b) ==
  IF ndim(a) # 2 \/ ndim(b) # 2 THEN ValueError
  ELSE IF a.shape[1] # b.shape[1] THEN ValueError
  ELSE LET r == a.shape[1]
           ca == a.shape[2]
           cb == b.shape[2]
           w == ca + cb
       IN [shape |-> <<r, w>>,
           el |-> [k \in 1..(r * w) |->
                     LET i == ((k - 1) \div w) + 1
                         j == ((k - 1) % w) + 1
                     IN IF j <= ca THEN At(a, i, j) ELSE At(b, i, j - ca)]]

\* torch.cat([a, b]) along dimension 0
torch_cat(a, b) ==
  [shape |-> <<a.shape[1] + b.shape[1], a.shape[2]>>,
   el |-> [k \in 1..((a.shape[1] + b.shape[1]) * a.shape[2]) |->
             IF k <= a.shape[1] * a.shape[2] THEN a.el[k]
             ELSE b.el[k - a.shape[1] * a.shape[2]]]]

\* The Forecast Model: requested_length timesteps with the channels of the
\* seed window, time-major.  For a non-positive request nothing is produced.
forecast_model(start_mat, n_out, call) ==
  LET n == Max(n_out, 0)
      c == start_mat.shape[2]
  IN [shape |-> <<n, c>>,
      el |-> [k \in 1..(n * c) |-> PredCell(call, (k - 1) \div c, (k - 1) % c)]]

\* ---------------------------------------------------------------- state
VARIABLES
  dataset_name,      \* experiment_configs['dataset']['_name_']
  pair_id,           \* args.pair_id
  validation,        \* args.validation
  lag,               \* experiment_configs['dataset']['size'][0]
  horizon,           \* experiment_configs['dataset']['size'][2]
  pc,                \* position in main(): start, loop, forecast, save, exit,
                     \* model_error (forecast_model raised), concat_error (line 180 raised)
  data_mat,          \* the tensor the windows are cut from (timesteps x channels)
  output_timesteps,  \* N, the requested length
  output_mat_full,   \* the accumulator (channels x timesteps), None before the 1st call
  start_idx,         \* loop cursor
  output_mat,        \* the matrix handed to torch.save
  sink,              \* what torch.save has written, in order
  calls,             \* history: the (start_mat, n_out) of every forecast_model call
  loaded,            \* history: what the loaders returned
  untrimmed          \* history: the accumulator as the loop left it

vars == <<dataset_name, pair_id, validation, lag, horizon, pc, data_mat,
          output_timesteps, output_mat_full, start_idx, output_mat, sink,
          calls, loaded, untrimmed>>

config == <<dataset_name, pair_id, validation, lag, horizon>>

NotLoaded == [mode |-> "none", source |-> 0, mat |-> None, pred |-> 0]

Init ==
  /\ dataset_name \in DatasetNames
  /\ pair_id \in 1..MaxPairId
  /\ validation \in BOOLEAN
  /\ lag \in 0..MaxLag
  /\ horizon \in 0..MaxHorizon
  /\ pc = "start"
  /\ data_mat = None
  /\ output_timesteps = 0
  /\ output_mat_full = None
  /\ start_idx = 0
  /\ output_mat = None
  /\ sink = <<>>
  /\ calls = <<>>
  /\ loaded = NotLoaded
  /\ untrimmed = None

\* line 148, the dataset is not one of the rollout datasets: main() returns
SkipRollout ==
  /\ pc = "start"
  /\ dataset_name \notin RolloutDatasets
  /\ pc' = "exit"
  /\ UNCHANGED <<config, data_mat, output_timesteps, output_mat_full,
                 start_idx, output_mat, sink, calls, loaded, untrimmed>>

\* lines 157-168: reconstruction branch up to the loop.  The loaders return a
\* matrix of at least one channel and one timestep and a count of prediction
\* timesteps (the shape[0] of an array, so never negative).
LoadReconstruction ==
  /\ pc = "start"
  /\ dataset_name \in RolloutDatasets
  /\ pair_id \in ReconstructionPairs
  /\ \E chan \in 1..MaxChan, len \in 1..MaxHist, pred \in 0..MaxPred :
       LET src == IF validation THEN 3 ELSE 1
           train0 == Loaded(src, chan, len)
       IN /\ loaded' = [mode |-> "reconstruction", source |-> src,
                        mat |-> train0, pred |-> pred]
          /\ output_timesteps' = pred
          /\ data_mat' = T(train0)
  /\ output_mat_full' = None
  /\ start_idx' = 0
  /\ pc' = "loop"
  /\ UNCHANGED <<config, output_mat, sink, calls, untrimmed>>

\* variant of line 169 with <= for <
LoopCondition_OffByOne ==
  IF output_mat_full = None THEN TRUE
  ELSE output_mat_full.shape[2] <= output_timesteps

\* line 169
LoopCondition ==
  IF output_mat_full = None THEN TRUE
  ELSE output_mat_full.shape[2] < output_timesteps

\* variant of line 170 that feeds the rollout its own output
Window_FromAccumulator ==
  IF output_mat_full = None THEN RowSlice(data_mat, 0, lag)
  ELSE RowsFrom(T(output_mat_full), 0 - lag)

\* line 170
Window == RowSlice(data_mat, start_idx * horizon, start_idx * horizon + lag)

\* variant of lines 179-182 without the start_idx test: the window is put in
\* front of every output
ReconStep_SeedEveryCall ==
  /\ pc = "loop"
  /\ LoopCondition
  /\ Len(calls) < MaxCalls
  /\ LET data_mat_tmp == Window
         out == T(forecast_model(data_mat_tmp, horizon, Len(calls)))
         tmp == T(squeeze(data_mat_tmp))
         full == IF start_idx = 0 THEN concatenate_axis1(tmp, out)
                 ELSE concatenate_axis1(concatenate_axis1(output_mat_full, tmp), out)
     IN /\ calls' = Append(calls, [start_mat |-> data_mat_tmp, n_out |-> horizon])
        /\ IF full = ValueError
           THEN /\ pc' = "concat_error"
                /\ UNCHANGED <<output_mat_full, start_idx>>
           ELSE /\ pc' = "loop"
                /\ output_mat_full' = full
                /\ start_idx' = start_idx + 1
  /\ UNCHANGED <<config, data_mat, output_timesteps, output_mat, sink,
                 loaded, untrimmed>>

\* lines 169-185, one iteration in which forecast_model returns
ReconStep ==
  /\ pc = "loop"
  /\ LoopCondition
  /\ Len(calls) < MaxCalls
  /\ LET data_mat_tmp == Window
         out == T(forecast_model(data_mat_tmp, horizon, Len(calls)))
         tmp == T(squeeze(data_mat_tmp))
         full == IF start_idx = 0 THEN concatenate_axis1(tmp, out)
                 ELSE concatenate_axis1(output_mat_full, out)
     IN /\ calls' = Append(calls, [start_mat |-> data_mat_tmp, n_out |-> horizon])
        /\ IF full = ValueError
           THEN /\ pc' = "concat_error"
                /\ UNCHANGED <<output_mat_full, start_idx>>
           ELSE /\ pc' = "loop"
                /\ output_mat_full' = full
                /\ start_idx' = start_idx + 1
  /\ UNCHANGED <<config, data_mat, output_timesteps, output_mat, sink,
                 loaded, untrimmed>>

\* variant of lines 172-175 that writes what has been accumulated when
\* forecast_model raises
ReconModelFails_SavesPartial ==
  /\ pc = "loop"
  /\ LoopCondition
  /\ Len(calls) < MaxCalls
  /\ calls' = Append(calls, [start_mat |-> Window, n_out |-> horizon])
  /\ sink' = Append(sink, output_mat_full)
  /\ pc' = "model_error"
  /\ UNCHANGED <<config, data_mat, output_timesteps, output_mat_full,
                 start_idx, output_mat, loaded, untrimmed>>

\* lines 172-175, forecast_model raises: the exception leaves main()
ReconModelFails ==
  /\ pc = "loop"
  /\ LoopCondition
  /\ Len(calls) < MaxCalls
  /\ calls' = Append(calls, [start_mat |-> Window, n_out |-> horizon])
  /\ pc' = "model_error"
  /\ UNCHANGED <<config, data_mat, output_timesteps, output_mat_full,
                 start_idx, output_mat, sink, loaded, untrimmed>>

\* variant of line 186 that keeps the last N timesteps
ReconTrim_KeepsLast ==
  /\ pc = "loop"
  /\ ~LoopCondition
  /\ untrimmed' = output_mat_full
  /\ output_mat_full' = ColSlice(output_mat_full, 0 - output_timesteps,
                                 output_mat_full.shape[2])
  /\ output_mat' = ColSlice(output_mat_full, 0 - output_timesteps,
                            output_mat_full.shape[2])
  /\ pc' = "save"
  /\ UNCHANGED <<config, data_mat, output_timesteps, start_idx, sink,
                 calls, loaded>>

\* lines 186-187
ReconTrim ==
  /\ pc = "loop"
  /\ ~LoopCondition
  /\ untrimmed' = output_mat_full
  /\ output_mat_full' = ColSlice(output_mat_full, 0, output_timesteps)
  /\ output_mat' = ColSlice(output_mat_full, 0, output_timesteps)
  /\ pc' = "save"
  /\ UNCHANGED <<config, data_mat, output_timesteps, start_idx, sink,
                 calls, loaded>>

\* variant of lines 192-199 whose validation branch does not subtract lag
LoadForecast_ValidationKeepsLag ==
  /\ pc = "start"
  /\ dataset_name \in RolloutDatasets
  /\ pair_id \notin ReconstructionPairs
  /\ \E chan \in 1..MaxChan, len \in 1..MaxHist, pred \in 0..MaxPred :
       LET ic == pair_id \in InitialConditionPairs
           src == IF validation THEN (IF ic THEN 4 ELSE 3)
                  ELSE (IF ic THEN 2 ELSE 1)
           mat == Loaded(src, chan, len)
       IN /\ loaded' = [mode |-> "forecast", source |-> src,
                        mat |-> mat, pred |-> pred]
          /\ output_timesteps' = IF ic /\ ~validation THEN pred - lag ELSE pred
          /\ data_mat' = RowsFrom(T(mat), 0 - lag)
  /\ pc' = "forecast"
  /\ UNCHANGED <<config, output_mat_full, start_idx, output_mat, sink,
                 calls, untrimmed>>

\* lines 190-210: forecast branch up to the model call
LoadForecast ==
  /\ pc = "start"
  /\ dataset_name \in RolloutDatasets
  /\ pair_id \notin ReconstructionPairs
  /\ \E chan \in 1..MaxChan, len \in 1..MaxHist, pred \in 0..MaxPred :
       LET ic == pair_id \in InitialConditionPairs
           src == IF validation THEN (IF ic THEN 4 ELSE 3)
                  ELSE (IF ic THEN 2 ELSE 1)
           mat == Loaded(src, chan, len)
       IN /\ loaded' = [mode |-> "forecast", source |-> src,
                        mat |-> mat, pred |-> pred]
          /\ output_timesteps' = IF ic THEN pred - lag ELSE pred
          /\ data_mat' = RowsFrom(T(mat), 0 - lag)
  /\ pc' = "forecast"
  /\ UNCHANGED <<config, output_mat_full, start_idx, output_mat, sink,
                 calls, untrimmed>>

\* variant of line 213 that asks for the native horizon
ForecastCall_RequestsHorizon ==
  /\ pc = "forecast"
  /\ LET out == forecast_model(data_mat, horizon, Len(calls))
     IN output_mat' = IF pair_id \in InitialConditionPairs
                      THEN T(torch_cat(data_mat, out))
                      ELSE T(out)
  /\ calls' = Append(calls, [start_mat |-> data_mat, n_out |-> horizon])
  /\ pc' = "save"
  /\ UNCHANGED <<config, data_mat, output_timesteps, output_mat_full,
                 start_idx, sink, loaded, untrimmed>>

\* lines 212-220, forecast_model returns
ForecastCall ==
  /\ pc = "forecast"
  /\ LET out == forecast_model(data_mat, output_timesteps, Len(calls))
     IN output_mat' = IF pair_id \in InitialConditionPairs
                      THEN T(torch_cat(data_mat, out))
                      ELSE T(out)
  /\ calls' = Append(calls, [start_mat |-> data_mat, n_out |-> output_timesteps])
  /\ pc' = "save"
  /\ UNCHANGED <<config, data_mat, output_timesteps, output_mat_full,
                 start_idx, sink, loaded, untrimmed>>

\* lines 212-215, forecast_model raises
ForecastModelFails ==
  /\ pc = "forecast"
  /\ calls' = Append(calls, [start_mat |-> data_mat, n_out |-> output_timesteps])
  /\ pc' = "model_error"
  /\ UNCHANGED <<config, data_mat, output_timesteps, output_mat_full,
                 start_idx, output_mat, sink, loaded, untrimmed>>

\* lines 222-226
Save ==
  /\ pc = "save"
  /\ sink' = Append(sink, output_mat)
  /\ pc' = "exit"
  /\ UNCHANGED <<config, data_mat, output_timesteps, output_mat_full,
                 start_idx, output_mat, calls, loaded, untrimmed>>

Next ==
  \/ SkipRollout
  \/ LoadReconstruction
  \/ ReconStep
  \/ ReconModelFails
  \/ ReconTrim
  \/ LoadForecast
  \/ ForecastCall
  \/ ForecastModelFails
  \/ Save

Spec == Init /\ [][Next]_vars

\* ------------------------------------------------------ names for the claims
Reconstruction == loaded.mode = "reconstruction"
Forecast == loaded.mode = "forecast"
Chan == loaded.mat.shape[1]
HistLen == loaded.mat.shape[2]
\* the value the source matrix holds at timestep t (0-based), channel c (0-based)
Gt(t, c) == Cell(loaded.source, t, c)
\* number of timesteps of a channels x timesteps matrix
Timesteps(m) == m.shape[2]
\* column t (0-based) of a channels x timesteps matrix is source timestep u
IsGtColumn(m, t, u) == \A c \in 0..(m.shape[1] - 1) : At(m, c + 1, t + 1) = Gt(u, c)
\* column t (0-based) of m is the i-th timestep (0-based) of the call-th call's output
IsPredColumn(m, t, call, i) ==
  \A c \in 0..(m.shape[1] - 1) : At(m, c + 1, t + 1) = PredCell(call, i, c)
\* row t (0-based) of a timesteps x channels window is source timestep u
IsGtRow(w, t, u) == \A c \in 0..(w.shape[2] - 1) : At(w, t + 1, c + 1) = Gt(u, c)
CeilDiv(a, b) == (a + b - 1) \div b

\* the timesteps the source history must have to give a full window to each of
\* ceil(N / horizon) steps
EnoughHistory ==
  (CeilDiv(output_timesteps, horizon) - 1) * horizon + lag <= HistLen
ValidReconstruction ==
  /\ Reconstruction
  /\ lag >= 1 /\ horizon >= 1 /\ output_timesteps >= 1
  /\ EnoughHistory

\* C1: for valid (lag, horizon, N) and a history long enough for every step,
\* the reconstruction rollout ends with an output of exactly N timesteps whose
\* timesteps [0, lag) are ground-truth timesteps [0, lag).
C1_ReconstructionOutput ==
  ValidReconstruction =>
    /\ pc # "concat_error"
    /\ pc \in {"save", "exit"} =>
         /\ Timesteps(output_mat) = output_timesteps
         /\ \A t \in 0..(lag - 1) :
              t < Timesteps(output_mat) /\ IsGtColumn(output_mat, t, t)

\* the number of timesteps of the first window
SeedLen == Min(lag, HistLen)
\* the number of calls after which lag + k * horizon first reaches N
CallsNeeded == Max(1, CeilDiv(output_timesteps - SeedLen, horizon))
PositiveReconstruction ==
  Reconstruction /\ lag >= 1 /\ horizon >= 1 /\ output_timesteps >= 1

\* C2 as stated: a reconstruction rollout that got through its loop has made
\* ceil(N / horizon) model calls.
C2_CeilNOverHorizon ==
  (PositiveReconstruction /\ pc \in {"save", "exit"}) =>
    Len(calls) = CeilDiv(output_timesteps, horizon)

\* C2 (amended): for positive lag, horizon and N the reconstruction loop
\* terminates after at most max(1, ceil((N - s) / horizon)) model calls, s
\* being the length of the seed window (lag, when the history has lag
\* timesteps): the loop never makes more calls than that, its condition is
\* false once that many have returned, and a rollout that gets through the
\* loop has made exactly that many.
C2_Calls ==
  PositiveReconstruction =>
    /\ Len(calls) <= CallsNeeded
    /\ start_idx <= Len(calls)
    /\ (pc = "loop" /\ start_idx = CallsNeeded) => ~LoopCondition
    /\ pc \in {"save", "exit"} => Len(calls) = CallsNeeded

C2_Witness ==
  /\ PositiveReconstruction
  /\ pc = "exit"
  /\ Len(calls) >= 2
  /\ Len(calls) < CeilDiv(output_timesteps, horizon)
  /\ output_timesteps % horizon # 0

InitialCondition == pair_id \in InitialConditionPairs

\* C3: a forecast-mode rollout calls the model exactly once, for exactly N
\* timesteps, from the last lag timesteps of the source history; the result is
\* the N predicted timesteps, preceded by the lag seed timesteps when the
\* initial-condition rule applies.
C3_ForecastSingleCall ==
  (Forecast /\ pc \in {"save", "exit"}) =>
    /\ Len(calls) = 1
    /\ calls[1].n_out = output_timesteps
    /\ (lag >= 1 /\ HistLen >= lag) =>
         /\ calls[1].start_mat.shape = <<lag, Chan>>
         /\ \A t \in 0..(lag - 1) :
              IsGtRow(calls[1].start_mat, t, HistLen - lag + t)
    /\ (lag >= 1 /\ HistLen >= lag /\ output_timesteps >= 1) =>
         LET n == output_timesteps
         IN IF InitialCondition
            THEN /\ output_mat.shape = <<Chan, n + lag>>
                 /\ \A t \in 0..(lag - 1) :
                      IsGtColumn(output_mat, t, HistLen - lag + t)
                 /\ \A i \in 0..(n - 1) : IsPredColumn(output_mat, lag + i, 0, i)
            ELSE /\ output_mat.shape = <<Chan, n>>
                 /\ \A i \in 0..(n - 1) : IsPredColumn(output_mat, i, 0, i)

C3_Witness ==
  /\ Forecast
  /\ pc = "exit"
  /\ InitialCondition
  /\ lag >= 2 /\ HistLen > lag /\ Chan >= 2
  /\ output_timesteps >= 2 /\ output_timesteps < horizon
  /\ Timesteps(sink[1]) = output_timesteps + lag

\* C4 as stated: whatever the regime, the matrix given to the sink has exactly
\* P timesteps, P being the count of required prediction timesteps (lag and
\* horizon positive, at least one timestep requested from the model).
C4_SinkLength ==
  (lag >= 1 /\ horizon >= 1 /\ loaded.pred >= 1 /\ output_timesteps >= 1) =>
    \A i \in 1..Len(sink) : Timesteps(sink[i]) = loaded.pred

\* C5: the mode, the seed source, the prefixing and the requested length are
\* functions of the pair id ({2,4}: reconstruction; {8,9}: forecast from the
\* initial-condition matrix, seed prefixed, P - lag requested; otherwise
\* forecast from the training matrix, no prefix, P requested); the validation
\* flag only selects the loader.
C5_ModeSelector ==
  loaded.mode # "none" =>
    /\ Reconstruction <=> pair_id \in ReconstructionPairs
    /\ pc \in {"loop", "concat_error"} => pair_id \in ReconstructionPairs
    /\ pc = "forecast" => pair_id \notin ReconstructionPairs
    /\ loaded.source \in {3, 4} <=> validation
    /\ loaded.source \in {2, 4} <=> pair_id \in InitialConditionPairs
    /\ Reconstruction => output_timesteps = loaded.pred
    /\ Forecast =>
         /\ output_timesteps =
              IF pair_id \in InitialConditionPairs THEN loaded.pred - lag
              ELSE loaded.pred
         /\ \A k \in 1..Len(calls) : calls[k].n_out = output_timesteps
         /\ pc \in {"save", "exit"} =>
              LET seed == IF pair_id \in InitialConditionPairs
                          THEN data_mat.shape[1] ELSE 0
              IN /\ Timesteps(output_mat) = seed + Max(output_timesteps, 0)
                 /\ \A t \in 0..(Timesteps(output_mat) - 1) :
                      \A c \in 1..Chan :
                        IsPred(At(output_mat, c, t + 1)) <=> t >= seed

C5_Witness ==
  /\ Forecast
  /\ validation
  /\ pair_id \in InitialConditionPairs
  /\ pc = "exit"
  /\ lag >= 2 /\ HistLen >= lag /\ output_timesteps >= 1
  /\ loaded.source = 4
  /\ ~IsPred(At(sink[1], 1, 1))

\* C6: the sink is written at most once, after the rollout has completed and
\* with the final matrix; a run in which a model call or a rollout step
\* failed, or whose dataset is not a rollout dataset, writes nothing.
C6_NoPartialResults ==
  /\ Len(sink) <= 1
  /\ pc \in {"model_error", "concat_error"} => sink = <<>>
  /\ dataset_name \notin RolloutDatasets => sink = <<>>
  /\ sink # <<>> =>
       /\ pc = "exit"
       /\ sink[1] = output_mat
       /\ Forecast => Len(calls) = 1
       /\ Reconstruction =>
            /\ untrimmed # None
            /\ Timesteps(untrimmed) >= output_timesteps
            /\ output_timesteps >= 0 =>
                 Timesteps(sink[1]) = output_timesteps

C6_Witness ==
  /\ pc = "exit"
  /\ Len(sink) = 1
  /\ Reconstruction
  /\ Len(calls) >= 2
  /\ Timesteps(sink[1]) >= 1

\* C7 as stated: a configuration error (lag or horizon not positive, N < 1, a
\* window shorter than lag at some reconstruction step) stops the run at
\* once: no model call is made with a short window, nothing is written.
C7_ConfigErrorsFatal ==
  loaded.mode # "none" =>
    /\ (lag <= 0 \/ horizon <= 0 \/ output_timesteps < 1) =>
         /\ pc \notin {"loop", "forecast", "save", "exit"}
         /\ calls = <<>>
         /\ sink = <<>>
    /\ Reconstruction =>
         \A k \in 1..Len(calls) : calls[k].start_mat.shape[1] = lag

\* C8: the window of the k-th reconstruction call is ground-truth timesteps
\* [k * horizon, k * horizon + lag) of the training matrix, holds no value of
\* the accumulator or of a model output, and the ground-truth matrix stays as
\* loaded through every iteration.
C8_WindowsFromGroundTruth ==
  Reconstruction =>
    /\ data_mat.shape = <<HistLen, Chan>>
    /\ \A t \in 0..(HistLen - 1) : IsGtRow(data_mat, t, t)
    /\ \A k \in 0..(Len(calls) - 1) :
         LET w == calls[k + 1].start_mat
         IN /\ calls[k + 1].n_out = horizon
            /\ w.shape[2] = Chan
            /\ \A t \in 0..(w.shape[1] - 1) : IsGtRow(w, t, k * horizon + t)
            /\ k * horizon + lag <= HistLen => w.shape[1] = lag

C8_Witness ==
  /\ Reconstruction
  /\ pc = "exit"
  /\ Len(calls) >= 2
  /\ lag >= 2 /\ horizon >= 2
  /\ \A k \in 1..Len(calls) : calls[k].start_mat.shape[1] = lag

\* columns [from, to) of m, all produced by the given call
FromCall(m, from, to, call) ==
  \A t \in from..(to - 1) : \A c \in 1..m.shape[1] :
    IsPred(At(m, c, t + 1)) /\ CallOf(At(m, c, t + 1)) = call

\* C9 as stated: when horizon divides N the accumulator has N timesteps before
\* the trim; when it does not, the trim removes timesteps of the final call
\* only.
C9_TrimByDivisibility ==
  (PositiveReconstruction /\ untrimmed # None) =>
    /\ output_timesteps % horizon = 0 => Timesteps(untrimmed) = output_timesteps
    /\ output_timesteps % horizon # 0 =>
         FromCall(untrimmed, output_timesteps, Timesteps(untrimmed), Len(calls) - 1)

\* C9 (amended): with s the seed length (lag, when the history has lag
\* timesteps), when N - s is a positive multiple of horizon the accumulator
\* has N timesteps before the trim and the trim removes nothing; whenever
\* N >= s the trim removes only timesteps produced by the final model call,
\* never timesteps of the seed or of an earlier call; the trimmed matrix is
\* the first N timesteps of the accumulator.
C9_Trim ==
  (PositiveReconstruction /\ untrimmed # None) =>
    LET n == output_timesteps
        len == Timesteps(untrimmed)
    IN /\ ((n - SeedLen) % horizon = 0 /\ n - SeedLen >= horizon) =>
            (len = n /\ output_mat = untrimmed)
       /\ n >= SeedLen => FromCall(untrimmed, n, len, Len(calls) - 1)
       /\ output_mat.shape = <<Chan, n>>
       /\ \A t \in 0..(n - 1) : \A c \in 1..Chan :
            At(output_mat, c, t + 1) = At(untrimmed, c, t + 1)

C9_Witness ==
  /\ PositiveReconstruction
  /\ pc = "exit"
  /\ output_timesteps >= lag
  /\ HistLen >= lag
  /\ output_timesteps % horizon = 0
  /\ Timesteps(untrimmed) > output_timesteps

\* C10: after k >= 1 reconstruction calls the accumulator holds lag + k *
\* horizon timesteps: the seed once at [0, lag), then the output of call j at
\* [lag + j * horizon, lag + (j + 1) * horizon), the horizon that follows the
\* input window [j * horizon, j * horizon + lag) of that call.
C10_Alignment ==
  (Reconstruction /\ pc = "loop" /\ output_mat_full # None /\ HistLen >= lag) =>
    LET k == Len(calls)
        acc == output_mat_full
    IN /\ k >= 1
       /\ start_idx = k
       /\ acc.shape = <<Chan, lag + k * horizon>>
       /\ \A t \in 0..(lag - 1) : IsGtColumn(acc, t, t)
       /\ \A j \in 0..(k - 1) :
            /\ \A i \in 0..(horizon - 1) :
                 IsPredColumn(acc, lag + j * horizon + i, j, i)
            /\ j * horizon + lag <= HistLen =>
                 /\ calls[j + 1].start_mat.shape[1] = lag
                 /\ \A t \in 0..(lag - 1) :
                      IsGtRow(calls[j + 1].start_mat, t, j * horizon + t)

C10_Witness ==
  /\ Reconstruction
  /\ pc = "loop"
  /\ Len(calls) >= 2
  /\ lag >= 2 /\ horizon >= 2
  /\ HistLen >= horizon + lag
  /\ Timesteps(output_mat_full) = lag + 2 * horizon

====
